---- MODULE Spec2Model ----
(***************************************************************************)
(* Model of the terminal session of hooks/useTerminal (src/unnamed/        *)
(* part_001) as driven by components/Terminal (src/unnamed/part_000).      *)
(* JavaScript strings are TLA+ strings; TLC evaluates Len, \o, SubSeq,     *)
(* Head and Tail on them, and the string methods the code uses are         *)
(* defined from these.                                                     *)
(***************************************************************************)
EXTENDS Integers, Sequences, FiniteSets, TLC

\* ------------------------------------------------------------------------
\* Bounds of the model
\* ------------------------------------------------------------------------
\* longest history for which a new submission is still explored
MaxHistory == 2
\* submissions are explored while the millisecond clock is below this
MaxClock == 400

\* ------------------------------------------------------------------------
\* JavaScript string and array methods used by the code
\* ------------------------------------------------------------------------
CharAt(s, i) == SubSeq(s, i, i)

WhiteSpace == {" ", "\t", "\n"}

RECURSIVE trimStart(_)
trimStart(s) ==
  IF s = "" THEN ""
  ELSE IF Head(s) \in WhiteSpace THEN trimStart(Tail(s)) ELSE s

RECURSIVE trimEnd(_)
trimEnd(s) ==
  IF s = "" THEN ""
  ELSE IF CharAt(s, Len(s)) \in WhiteSpace
       THEN trimEnd(SubSeq(s, 1, Len(s) - 1)) ELSE s

\* String.prototype.trim
trim(s) == trimEnd(trimStart(s))

\* the lower-case letter of each upper-case letter
LowerMap ==
  [c \in {"A", "B", "C", "D", "E", "F", "G", "H", "I", "J", "K", "L", "M",
           "N", "O", "P", "Q", "R", "S", "T", "U", "V", "W", "X", "Y", "Z"} |->
     CASE c = "A" -> "a" [] c = "B" -> "b" [] c = "C" -> "c" [] c = "D" -> "d"
       [] c = "E" -> "e" [] c = "F" -> "f" [] c = "G" -> "g" [] c = "H" -> "h"
       [] c = "I" -> "i" [] c = "J" -> "j" [] c = "K" -> "k" [] c = "L" -> "l"
       [] c = "M" -> "m" [] c = "N" -> "n" [] c = "O" -> "o" [] c = "P" -> "p"
       [] c = "Q" -> "q" [] c = "R" -> "r" [] c = "S" -> "s" [] c = "T" -> "t"
       [] c = "U" -> "u" [] c = "V" -> "v" [] c = "W" -> "w" [] c = "X" -> "x"
       [] c = "Y" -> "y" [] c = "Z" -> "z"]

LowerChar(c) == IF c \in DOMAIN LowerMap THEN LowerMap[c] ELSE c

\* String.prototype.toLowerCase
RECURSIVE toLowerCase(_)
toLowerCase(s) ==
  IF s = "" THEN "" ELSE LowerChar(Head(s)) \o toLowerCase(Tail(s))

\* String.prototype.startsWith
startsWith(s, p) == Len(p) <= Len(s) /\ SubSeq(s, 1, Len(p)) = p

\* String.prototype.includes
strIncludes(s, sub) ==
  \E i \in 0..(Len(s) - Len(sub)) : SubSeq(s, i + 1, i + Len(sub)) = sub

\* String.prototype.split with a one-character separator: a sequence of
\* strings, never empty ("" splits to <<"">>), with an empty string between
\* two adjacent separators
RECURSIVE splitFrom(_, _, _)
splitFrom(s, sep, cur) ==
  IF s = "" THEN <<cur>>
  ELSE IF Head(s) = sep THEN <<cur>> \o splitFrom(Tail(s), sep, "")
       ELSE splitFrom(Tail(s), sep, cur \o Head(s))

split(s, sep) == splitFrom(s, sep, "")

\* Array.prototype.join
RECURSIVE join(_, _)
join(arr, sep) ==
  IF Len(arr) = 0 THEN ""
  ELSE IF Len(arr) = 1 THEN arr[1]
       ELSE arr[1] \o sep \o join(Tail(arr), sep)

\* Array.prototype.filter(Boolean) on an array of strings
filterBoolean(arr) == SelectSeq(arr, LAMBDA x : x # "")

\* Array.prototype.includes
arrIncludes(arr, x) == \E i \in 1..Len(arr) : arr[i] = x

\* Array.prototype.indexOf, 0-based, -1 when absent
indexOf(arr, x) ==
  IF arrIncludes(arr, x)
  THEN (CHOOSE i \in 1..Len(arr) :
          arr[i] = x /\ \A j \in 1..(i - 1) : arr[j] # x) - 1
  ELSE -1

\* args[i] (0-based) is undefined or the empty string: `!args[i]`
Falsy(args, i) == i < 0 \/ i >= Len(args) \/ args[i + 1] = ""

\* `args[i] || dflt`
ArgOr(args, i, dflt) == IF Falsy(args, i) THEN dflt ELSE args[i + 1]

\* args[i] inside a template literal: undefined prints as "undefined"
ArgStr(args, i) ==
  IF i < 0 \/ i >= Len(args) THEN "undefined" ELSE args[i + 1]

\* an optional string (string | null): <<>> is null, <<s>> the string s
null == <<>>
Some(s) == <<s>>

\* ------------------------------------------------------------------------
\* Static tables
\* ------------------------------------------------------------------------
\* mockFileSystem: path -> ordered entries; `size` is present on files only
mockFileSystem ==
  [p \in {"/", "/home", "/home/user", "/home/user/projects"} |->
    CASE p = "/" ->
         << [name |-> "home", type |-> "directory", permissions |-> "drwxr-xr-x"],
            [name |-> "etc", type |-> "directory", permissions |-> "drwxr-xr-x"],
            [name |-> "var", type |-> "directory", permissions |-> "drwxr-xr-x"],
            [name |-> "usr", type |-> "directory", permissions |-> "drwxr-xr-x"],
            [name |-> "bin", type |-> "directory", permissions |-> "drwxr-xr-x"] >>
      [] p = "/home" ->
         << [name |-> "user", type |-> "directory", permissions |-> "drwxr-xr-x"],
            [name |-> "guest", type |-> "directory", permissions |-> "drwxr-xr-x"] >>
      [] p = "/home/user" ->
         << [name |-> "documents", type |-> "directory", permissions |-> "drwxr-xr-x"],
            [name |-> "downloads", type |-> "directory", permissions |-> "drwxr-xr-x"],
            [name |-> "projects", type |-> "directory", permissions |-> "drwxr-xr-x"],
            [name |-> ".bashrc", type |-> "file", size |-> 3423, permissions |-> "-rw-r--r--"],
            [name |-> "readme.txt", type |-> "file", size |-> 1024, permissions |-> "-rw-r--r--"] >>
      [] p = "/home/user/projects" ->
         << [name |-> "ai-terminal", type |-> "directory", permissions |-> "drwxr-xr-x"],
            [name |-> "web-app", type |-> "directory", permissions |-> "drwxr-xr-x"],
            [name |-> "script.sh", type |-> "file", size |-> 512, permissions |-> "-rwxr-xr-x"] >> ]

\* Property names every object literal inherits from Object.prototype: a
\* lookup fs[key] with one of these keys yields a truthy non-array value
ObjectPrototypeKeys ==
  {"constructor", "toString", "valueOf", "hasOwnProperty", "isPrototypeOf",
   "propertyIsEnumerable", "toLocaleString", "__proto__",
   "__defineGetter__", "__defineSetter__", "__lookupGetter__",
   "__lookupSetter__"}

\* workflowPatterns in insertion order (the order of Object.entries):
\* <<pattern, suggestion>>
workflowPatterns == <<
  <<"find", "find . -name \"*.txt\" -type f">>,
  <<"find .", "find . -name \"*.txt\" -type f">>,
  <<"grep", "grep -r \"pattern\" .">>,
  <<"grep -", "grep -r \"pattern\" .">>,
  <<"ls", "ls -la">>,
  <<"cat", "cat filename.txt">>,
  <<"tail", "tail -f /var/log/syslog">>,
  <<"head", "head -n 20 filename.txt">>,
  <<"ping", "ping -c 4 google.com">>,
  <<"curl", "curl -I https://google.com">>,
  <<"wget", "wget https://example.com/file.txt">>,
  <<"netstat", "netstat -tuln">>,
  <<"ss", "ss -tuln">>,
  <<"traceroute", "traceroute google.com">>,
  <<"nslookup", "nslookup google.com">>,
  <<"dig", "dig google.com">>,
  <<"lsof", "lsof -i :80">>,
  <<"ps", "ps aux | grep process">>,
  <<"top", "top">>,
  <<"htop", "htop">>,
  <<"df", "df -h">>,
  <<"du", "du -sh *">>,
  <<"free", "free -h">>,
  <<"chmod", "chmod 755 filename">>,
  <<"chown", "chown user:group filename">>,
  <<"tar", "tar -czf archive.tar.gz directory/">>,
  <<"unzip", "unzip file.zip">>,
  <<"zip", "zip -r archive.zip directory/">>,
  <<"uname", "uname -a">>,
  <<"lscpu", "lscpu">>,
  <<"lsblk", "lsblk">>,
  <<"mount", "mount | grep \"^/\"">>,
  <<"who", "whoami">>,
  <<"date", "date +\"%Y-%m-%d %H:%M:%S\"">>
>>

\* ------------------------------------------------------------------------
\* predictWorkflow
\* ------------------------------------------------------------------------
\* patternMatches without `pattern !== input`
patternMatches_noIdentityCheck(pattern, input) == startsWith(pattern, input)

\* the test of the direct pattern matching loop
patternMatches(pattern, input) == startsWith(pattern, input) /\ pattern # input

\* directPrediction with a loop that keeps the last matching entry
directPrediction_lastMatch(input) ==
  IF \E i \in 1..Len(workflowPatterns) :
       patternMatches(workflowPatterns[i][1], input)
  THEN LET last == CHOOSE i \in 1..Len(workflowPatterns) :
                     /\ patternMatches(workflowPatterns[i][1], input)
                     /\ \A j \in (i + 1)..Len(workflowPatterns) :
                          ~patternMatches(workflowPatterns[j][1], input)
       IN  Some(workflowPatterns[last][2])
  ELSE null

\* the loop over Object.entries(workflowPatterns): the suggestion of the
\* first matching entry, or null when the loop ends without a return
directPrediction(input) ==
  IF \E i \in 1..Len(workflowPatterns) :
       patternMatches(workflowPatterns[i][1], input)
  THEN LET first == CHOOSE i \in 1..Len(workflowPatterns) :
                      /\ patternMatches(workflowPatterns[i][1], input)
                      /\ \A j \in 1..(i - 1) :
                           ~patternMatches(workflowPatterns[j][1], input)
       IN  Some(workflowPatterns[first][2])
  ELSE null

\* the rules of the context-aware predictions, on the input and the
\* lower-cased command of the last record
contextRules(input, lastCommand) ==
  LET isGit == input = "git" \/ input = "git "
  IN  IF strIncludes(lastCommand, "git status")
         /\ startsWith(input, "git") /\ isGit
      THEN Some("git add .")
      ELSE IF strIncludes(lastCommand, "git add")
              /\ startsWith(input, "git") /\ isGit
      THEN Some("git commit -m \"Update\"")
      ELSE IF strIncludes(lastCommand, "git commit")
              /\ startsWith(input, "git") /\ isGit
      THEN Some("git push origin main")
      ELSE IF strIncludes(lastCommand, "ping") /\ startsWith(input, "tr")
      THEN Some("traceroute google.com")
      ELSE IF strIncludes(lastCommand, "ping") /\ startsWith(input, "ns")
      THEN Some("nslookup google.com")
      ELSE IF strIncludes(lastCommand, "find") /\ startsWith(input, "gr")
      THEN Some("grep -r \"pattern\" .")
      ELSE null

\* contextPrediction that consults the first record of history
contextPrediction_firstRecord(input, history) ==
  IF Len(history) > 0
  THEN contextRules(input, toLowerCase(history[1].command))
  ELSE null

\* contextPrediction that consults every record of history, latest first
contextPrediction_anyRecord(input, history) ==
  IF \E k \in 1..Len(history) :
       contextRules(input, toLowerCase(history[k].command)) # null
  THEN contextRules(input, toLowerCase(history[
         CHOOSE k \in 1..Len(history) :
           /\ contextRules(input, toLowerCase(history[k].command)) # null
           /\ \A m \in (k + 1)..Len(history) :
                contextRules(input, toLowerCase(history[m].command)) = null
         ].command))
  ELSE null

\* the context-aware predictions, taken from the last record of history
contextPrediction(input, history) ==
  IF Len(history) > 0
  THEN contextRules(input, toLowerCase(history[Len(history)].command))
  ELSE null

\* (`const input` and the outcome of the loop are values computed once: they
\* are bound as elements of one-element sets)
predictWorkflow(currentInput, history) ==
  CHOOSE result \in
    { IF direct # null THEN direct ELSE contextPrediction(input, history) :
        <<input, direct>> \in
          { <<i, directPrediction(i)>> :
              i \in {trim(toLowerCase(currentInput))} } } : TRUE

\* ------------------------------------------------------------------------
\* executeCommand: the handlers of the switch
\* ------------------------------------------------------------------------
\* What the try block leaves behind: the three locals, and the value thrown
\* (null when the handler ran to its break).  A handler that throws does so
\* before it assigns any of the locals.
Ok(out, dir) ==
  [output |-> out, exitCode |-> 0, newDirectory |-> dir, thrown |-> null]
Fail(out, dir) ==
  [output |-> out, exitCode |-> 1, newDirectory |-> dir, thrown |-> null]
Throws(err, dir) ==
  [output |-> "", exitCode |-> 0, newDirectory |-> dir, thrown |-> Some(err)]

DecDigits == "0123456789"
HexDigits == "0123456789abcdef"

DigitVal(c, digits) ==
  (CHOOSE i \in 1..Len(digits) : CharAt(digits, i) = LowerChar(c)) - 1
IsDigit(c, digits) == \E i \in 1..Len(digits) : CharAt(digits, i) = LowerChar(c)

\* the longest prefix of s made of digits of the radix
RECURSIVE digitsPrefix(_, _)
digitsPrefix(s, digits) ==
  IF s # "" /\ IsDigit(Head(s), digits)
  THEN Head(s) \o digitsPrefix(Tail(s), digits)
  ELSE ""

RECURSIVE stripZeros(_)
stripZeros(s) == IF s # "" /\ Head(s) = "0" THEN stripZeros(Tail(s)) ELSE s

\* a > b for digit strings of the same length and radix
RECURSIVE digitsGreater(_, _, _)
digitsGreater(a, b, digits) ==
  IF a = "" THEN FALSE
  ELSE IF DigitVal(Head(a), digits) # DigitVal(Head(b), digits)
       THEN DigitVal(Head(a), digits) > DigitVal(Head(b), digits)
       ELSE digitsGreater(Tail(a), Tail(b), digits)

\* the number written by the digit string d exceeds the one written by lim
exceeds(d, lim, digits) ==
  LET a == stripZeros(d)
  IN  Len(a) > Len(lim) \/ (Len(a) = Len(lim) /\ digitsGreater(a, lim, digits))

RECURSIVE digitsValue(_, _, _)
digitsValue(s, digits, acc) ==
  IF s = "" THEN acc
  ELSE digitsValue(Tail(s), digits, acc * Len(digits) + DigitVal(Head(s), digits))

\* 2^31 - 1, the largest integer TLC computes with, and 2^32 - 1, the
\* largest length an array can have, as digit strings of radix 10 and 16
MaxIntDec == "2147483647"
MaxIntHex == "7fffffff"
MaxArrayLengthDec == "4294967295"
MaxArrayLengthHex == "ffffffff"

\* parseInt(s) with no radix; s = null stands for parseInt(undefined).
\* Leading white space is skipped, a sign is read, a 0x prefix selects
\* radix 16, and the result is NaN when no digit follows.  The result is
\* [nan, val, huge]: huge says that the magnitude exceeds 2^32 - 1, and val
\* is the value when its magnitude is at most 2^31 - 1 (larger magnitudes
\* are kept at 2^31 - 1).
parseInt(opt) ==
  IF opt = null THEN [nan |-> TRUE, val |-> 0, huge |-> FALSE]
  ELSE LET s0 == trimStart(opt[1])
           neg == s0 # "" /\ Head(s0) = "-"
           s1 == IF s0 # "" /\ Head(s0) \in {"-", "+"} THEN Tail(s0) ELSE s0
           hex == Len(s1) >= 2 /\ toLowerCase(SubSeq(s1, 1, 2)) = "0x"
           digits == IF hex THEN HexDigits ELSE DecDigits
           d == IF hex THEN digitsPrefix(SubSeq(s1, 3, Len(s1)), HexDigits)
                ELSE digitsPrefix(s1, DecDigits)
           big == exceeds(d, IF hex THEN MaxIntHex ELSE MaxIntDec, digits)
           mag == IF big THEN 2147483647 ELSE digitsValue(stripZeros(d), digits, 0)
       IN  IF d = "" THEN [nan |-> TRUE, val |-> 0, huge |-> FALSE]
           ELSE [nan |-> FALSE,
                 val |-> IF neg THEN 0 - mag ELSE mag,
                 huge |-> exceeds(d, IF hex THEN MaxArrayLengthHex
                                     ELSE MaxArrayLengthDec, digits)]

\* args[i] as the argument of parseInt: undefined past the end of args
ArgOpt(args, i) == IF i < 0 \/ i >= Len(args) THEN null ELSE Some(args[i + 1])

\* `args.includes(flag) ? parseInt(args[args.indexOf(flag) + 1]) || dflt : dflt`
flagNumber(args, flag, dflt) ==
  IF arrIncludes(args, flag)
  THEN LET n == parseInt(ArgOpt(args, indexOf(args, flag) + 1))
       IN  IF n.nan \/ n.val = 0 THEN [val |-> dflt, huge |-> FALSE]
           ELSE [val |-> n.val, huge |-> n.huge]
  ELSE [val |-> dflt, huge |-> FALSE]

\* new Date().toLocaleDateString() (en-US, UTC) while the clock, which
\* starts at the epoch, stays within its first day
toLocaleDateString(now) == "1/1/1970"

\* fs[key], as `fs[key]` evaluates on an object literal: the entries of an
\* own key, a truthy non-array value for an inherited property ("proto"),
\* and undefined otherwise
fsLookup(fs, key) ==
  IF key \in DOMAIN fs THEN [kind |-> "items", items |-> fs[key]]
  ELSE IF key \in ObjectPrototypeKeys THEN [kind |-> "proto", items |-> <<>>]
  ELSE [kind |-> "undefined", items |-> <<>>]

lsLongLine(item, now) ==
  (IF "permissions" \in DOMAIN item /\ item.permissions # ""
   THEN item.permissions ELSE "drwxr-xr-x") \o " 1 user user "
    \o (IF "size" \in DOMAIN item /\ item.size # 0
        THEN ToString(item.size) ELSE "4096")
    \o " " \o toLocaleDateString(now) \o " " \o item.name

\* case 'ls'
handle_ls(args, cwd, fs, now) ==
  LET lsPath == ArgOr(args, 1, cwd)
      found == fsLookup(fs, lsPath)
  IN  IF found.kind = "proto"
      THEN Throws("TypeError: items.map is not a function", cwd)
      ELSE IF arrIncludes(args, "-la") \/ arrIncludes(args, "-l")
           THEN Ok(join([k \in 1..Len(found.items) |->
                           lsLongLine(found.items[k], now)], "\n"), cwd)
           ELSE Ok(join([k \in 1..Len(found.items) |->
                           found.items[k].name], "  "), cwd)

\* case 'pwd' printing the directory the session starts in
handle_pwd_initial(args, cwd) == Ok("/home/user", cwd)

\* case 'pwd'
handle_pwd(args, cwd) == Ok(cwd, cwd)

\* cdTarget without the case of the root directory for a relative target
cdTarget_doublesSlash(args, cwd) ==
  IF Falsy(args, 1) \/ args[2] = "~" THEN "/home/user"
  ELSE IF args[2] = ".."
       THEN LET parts == filterBoolean(split(cwd, "/"))
            IN  "/" \o join(SubSeq(parts, 1, Len(parts) - 1), "/")
       ELSE IF startsWith(args[2], "/") THEN args[2]
            ELSE cwd \o "/" \o args[2]

\* the path computed by case 'cd' before it is looked up
cdTarget(args, cwd) ==
  IF Falsy(args, 1) \/ args[2] = "~" THEN "/home/user"
  ELSE IF args[2] = ".."
       THEN LET parts == filterBoolean(split(cwd, "/"))
            IN  "/" \o join(SubSeq(parts, 1, Len(parts) - 1), "/")
       ELSE IF startsWith(args[2], "/") THEN args[2]
            ELSE IF cwd = "/" THEN "/" \o args[2]
                 ELSE cwd \o "/" \o args[2]

\* case 'cd' without the lookup of the new directory
handle_cd_unchecked(args, cwd, fs) == Ok("", cdTarget(args, cwd))

\* case 'cd' without `newDirectory = state.currentDirectory` on failure
handle_cd_keepsTarget(args, cwd, fs) ==
  LET newDirectory == cdTarget(args, cwd)
  IN  IF fsLookup(fs, newDirectory).kind # "undefined"
      THEN Ok("", newDirectory)
      ELSE Fail("cd: " \o ArgStr(args, 1) \o ": No such file or directory",
                newDirectory)

\* case 'cd'
handle_cd(args, cwd, fs) ==
  LET newDirectory == cdTarget(args, cwd)
  IN  IF fsLookup(fs, newDirectory).kind # "undefined"
      THEN Ok("", newDirectory)
      ELSE Fail("cd: " \o ArgStr(args, 1) \o ": No such file or directory", cwd)

\* The multi-line text blocks the handlers print are fixed texts; the model
\* keeps the first line of each block, and every substituted argument.

\* case 'cat'
handle_cat(args, cwd) ==
  IF Falsy(args, 1) THEN Fail("cat: missing file operand", cwd)
  ELSE IF args[2] = "readme.txt" THEN Ok("Welcome to AI Terminal v2.0!", cwd)
  ELSE IF args[2] = ".bashrc"
       THEN Ok("# ~/.bashrc: executed by bash(1) for non-login shells.", cwd)
  ELSE Fail("cat: " \o args[2] \o ": No such file or directory", cwd)

\* (Math.random() * scale + base).toFixed(3), for Math.random() = r / 1000
RandomSamples == {0, 999}

toFixed3(base, scale, r) ==
  LET millis == base * 1000 + scale * r
      frac == ToString(millis % 1000)
  IN  ToString(millis \div 1000) \o "."
        \o SubSeq("000", 1, 3 - Len(frac)) \o frac

RECURSIVE pingReplies(_, _, _)
\* Array.from({length: count}, (_, i) => reply line i).join('\n'), the lines
\* from index i on
pingReplies(i, count, r) ==
  IF i >= count THEN ""
  ELSE "64 bytes from 142.250.191.14: icmp_seq=" \o ToString(i)
         \o " ttl=55 time=" \o toFixed3(10, 5, r) \o " ms"
         \o (IF i + 1 < count THEN "\n" \o pingReplies(i + 1, count, r) ELSE "")

\* case 'ping'; one sample r stands for every Math.random() of the call.
\* Array.from throws a RangeError for a length above 2^32 - 1, and takes a
\* negative length as 0.
handle_ping(args, cwd, r) ==
  LET host == ArgOr(args, 1, "google.com")
      n == flagNumber(args, "-c", 4)
      count == n.val
  IN  IF n.huge /\ n.val > 0
      THEN Throws("RangeError: Invalid array length", cwd)
      ELSE Ok("PING " \o host \o " (142.250.191.14): 56 data bytes\n"
              \o pingReplies(0, count, r) \o "\n\n"
              \o "--- " \o host \o " ping statistics ---\n"
              \o ToString(count) \o " packets transmitted, " \o ToString(count)
              \o " packets received, 0.0% packet loss\n"
              \o "round-trip min/avg/max/stddev = 10.234/"
              \o toFixed3(12, 2, r) \o "/15.456/1.234 ms", cwd)

\* cases 'curl' .. 'lsof'
handle_network(cmd, args, cwd) ==
  CASE cmd = "curl" ->
         IF arrIncludes(args, "-I") THEN Ok("HTTP/2 200 ", cwd) ELSE Ok("{", cwd)
    [] cmd = "wget" ->
         Ok("--1970-01-01T00:00:00.000Z--  "
            \o ArgOr(args, 1, "https://example.com/file.txt"), cwd)
    [] cmd = "netstat" ->
         IF arrIncludes(args, "-tuln") \/ arrIncludes(args, "-an")
         THEN Ok("Active Internet connections (only servers)", cwd)
         ELSE Ok("Active Internet connections (w/o servers)", cwd)
    [] cmd = "ss" ->
         Ok("Netid  State      Recv-Q Send-Q Local Address:Port               Peer Address:Port              ", cwd)
    [] cmd = "traceroute" ->
         Ok("traceroute to " \o ArgOr(args, 1, "google.com")
            \o " (142.250.191.14), 30 hops max, 60 byte packets", cwd)
    [] cmd = "nslookup" ->
         Ok("Server:\t\t8.8.8.8\nAddress:\t8.8.8.8#53\n\nNon-authoritative answer:\nName:\t"
            \o ArgOr(args, 1, "google.com"), cwd)
    [] cmd = "dig" ->
         Ok("; <<>> DiG 9.16.1-Ubuntu <<>> " \o ArgOr(args, 1, "google.com"), cwd)
    [] cmd = "ps" ->
         IF arrIncludes(args, "aux")
         THEN Ok("USER       PID %CPU %MEM    VSZ   RSS TTY      STAT START   TIME COMMAND", cwd)
         ELSE Ok("  PID TTY          TIME CMD", cwd)
    [] cmd = "df" ->
         IF arrIncludes(args, "-h")
         THEN Ok("Filesystem      Size  Used Avail Use% Mounted on", cwd)
         ELSE Ok("Filesystem     1K-blocks    Used Available Use% Mounted on", cwd)
    [] cmd = "du" ->
         IF arrIncludes(args, "-sh") THEN Ok("1.2G\tdocuments", cwd)
         ELSE Ok("1234567\t./documents", cwd)
    [] cmd = "free" ->
         Ok("              total        used        free      shared  buff/cache   available", cwd)
    [] cmd = "lsof" ->
         LET port == IF arrIncludes(args, "-i")
                     THEN ArgOr(args, indexOf(args, "-i") + 1, ":80") ELSE ":80"
         IN  Ok("COMMAND  PID USER   FD   TYPE DEVICE SIZE/OFF NODE NAME\n"
                \o "nginx   1234 root    6u  IPv4  12345      0t0  TCP *"
                \o port \o " (LISTEN)", cwd)

NetworkCommands ==
  {"curl", "wget", "netstat", "ss", "traceroute", "nslookup", "dig", "ps",
   "df", "du", "free", "lsof"}

\* `if (!args[1]) missing else done`, the shape of most handlers
needsOperand(args, cwd, missing, done) ==
  IF Falsy(args, 1) THEN Fail(missing, cwd) ELSE Ok(done, cwd)

\* variant: only the first operand is required
needsTwoOperands_firstOnly(args, cwd, missing, done) ==
  IF Falsy(args, 1) THEN Fail(missing, cwd) ELSE Ok(done, cwd)

\* `if (!args[1] || !args[2]) missing else done`
needsTwoOperands(args, cwd, missing, done) ==
  IF Falsy(args, 1) \/ Falsy(args, 2) THEN Fail(missing, cwd) ELSE Ok(done, cwd)

\* cases 'whoami' .. 'locate'
handle_fileops(cmd, args, cwd) ==
  CASE cmd = "whoami" -> Ok("user", cwd)
    [] cmd = "date" -> Ok("Thu Jan 01 1970 00:00:00 GMT+0000 (Coordinated Universal Time)", cwd)
    [] cmd = "uname" ->
         IF arrIncludes(args, "-a")
         THEN Ok("Linux ai-terminal 5.15.0-ai #1 SMP x86_64 GNU/Linux", cwd)
         ELSE Ok("Linux", cwd)
    [] cmd = "lscpu" -> Ok("Architecture:                    x86_64", cwd)
    [] cmd = "echo" -> Ok(join(Tail(args), " "), cwd)
    [] cmd = "find" -> Ok(ArgOr(args, 1, ".") \o "/documents/report.txt", cwd)
    [] cmd = "grep" ->
         IF arrIncludes(args, "-r")
         THEN Ok("./documents/report.txt:Found "
                 \o ArgOr(args, indexOf(args, "-r") + 1, "pattern")
                 \o " in line 15", cwd)
         ELSE Fail("grep: missing pattern", cwd)
    [] cmd = "clear" -> Ok("", cwd)
    [] cmd = "mkdir" ->
         needsOperand(args, cwd, "mkdir: missing operand",
                      "Directory '" \o ArgStr(args, 1) \o "' created")
    [] cmd = "rmdir" ->
         needsOperand(args, cwd, "rmdir: missing operand",
                      "Directory '" \o ArgStr(args, 1) \o "' removed")
    [] cmd = "rm" ->
         needsOperand(args, cwd, "rm: missing operand",
                      IF arrIncludes(args, "-rf")
                      THEN "Removed '" \o ArgStr(args, 1) \o "' and its contents"
                      ELSE "Removed '" \o ArgStr(args, 1) \o "'")
    [] cmd = "cp" ->
         needsTwoOperands(args, cwd, "cp: missing file operand",
                          "'" \o ArgStr(args, 1) \o "' copied to '"
                          \o ArgStr(args, 2) \o "'")
    [] cmd = "mv" ->
         needsTwoOperands(args, cwd, "mv: missing file operand",
                          "'" \o ArgStr(args, 1) \o "' moved to '"
                          \o ArgStr(args, 2) \o "'")
    [] cmd = "touch" ->
         needsOperand(args, cwd, "touch: missing file operand",
                      "File '" \o ArgStr(args, 1) \o "' created/updated")
    [] cmd = "ln" ->
         needsTwoOperands(args, cwd, "ln: missing operand",
                          IF arrIncludes(args, "-s")
                          THEN "Symbolic link '" \o ArgStr(args, 2)
                               \o "' created pointing to '" \o ArgStr(args, 1) \o "'"
                          ELSE "Hard link '" \o ArgStr(args, 2)
                               \o "' created for '" \o ArgStr(args, 1) \o "'")
    [] cmd = "which" ->
         needsOperand(args, cwd, "which: missing argument",
                      "/usr/bin/" \o ArgStr(args, 1))
    [] cmd = "whereis" ->
         needsOperand(args, cwd, "whereis: missing argument",
                      ArgStr(args, 1) \o ": /usr/bin/" \o ArgStr(args, 1)
                      \o " /usr/share/man/man1/" \o ArgStr(args, 1) \o ".1.gz")
    [] cmd = "locate" ->
         needsOperand(args, cwd, "locate: missing pattern",
                      "/home/user/documents/" \o ArgStr(args, 1))

FileOpsCommands ==
  {"whoami", "date", "uname", "lscpu", "echo", "find", "grep", "clear",
   "mkdir", "rmdir", "rm", "cp", "mv", "touch", "ln", "which", "whereis",
   "locate"}

\* `if (!fileName) missing else if (known) text else notFound`
readsFile(args, cwd, known, missing, text, notFound) ==
  IF Falsy(args, 1) THEN Fail(missing, cwd)
  ELSE IF known THEN Ok(text, cwd) ELSE Fail(notFound, cwd)

\* cases 'less' .. 'awk'
handle_text(cmd, args, cwd) ==
  CASE cmd \in {"less", "more"} ->
         readsFile(args, cwd, ArgStr(args, 1) = "readme.txt",
                   cmd \o ": missing file operand",
                   "Viewing " \o ArgStr(args, 1) \o " (press 'q' to quit)",
                   cmd \o ": " \o ArgStr(args, 1) \o ": No such file or directory")
    [] cmd = "head" ->
         readsFile(args, cwd, ArgStr(args, 1) = "readme.txt",
                   "head: missing file operand", "Welcome to AI Terminal!",
                   "head: " \o ArgStr(args, 1) \o ": No such file or directory")
    [] cmd = "tail" ->
         readsFile(args, cwd,
                   ArgStr(args, 1) = "/var/log/syslog" \/ arrIncludes(args, "-f"),
                   "tail: missing file operand",
                   "Jan 20 10:30:15 ai-terminal systemd[1]: Started AI Terminal Service",
                   "tail: " \o ArgStr(args, 1) \o ": No such file or directory")
    [] cmd = "wc" ->
         readsFile(args, cwd, ArgStr(args, 1) = "readme.txt",
                   "wc: missing file operand",
                   IF arrIncludes(args, "-l") THEN "25 readme.txt"
                   ELSE IF arrIncludes(args, "-w") THEN "156 readme.txt"
                   ELSE IF arrIncludes(args, "-c") THEN "1024 readme.txt"
                   ELSE "  25  156 1024 readme.txt",
                   "wc: " \o ArgStr(args, 1) \o ": No such file or directory")
    [] cmd = "sort" ->
         needsOperand(args, cwd, "sort: missing file operand", "apple")
    [] cmd = "uniq" ->
         needsOperand(args, cwd, "uniq: missing file operand", "apple")
    [] cmd = "cut" ->
         IF arrIncludes(args, "-d") /\ arrIncludes(args, "-f") THEN Ok("user", cwd)
         ELSE IF arrIncludes(args, "-c") THEN Ok("abcdefghij", cwd)
         ELSE Fail("cut: you must specify a list of bytes, characters, or fields", cwd)
    [] cmd = "tr" ->
         IF Len(args) < 3 THEN Fail("tr: missing operand", cwd)
         ELSE Ok("Character translation completed", cwd)
    [] cmd = "sed" ->
         IF Falsy(args, Len(args) - 1) \/ Len(args) < 2
         THEN Fail("sed: missing script or file", cwd)
         ELSE Ok("Text substitution completed on " \o args[Len(args)], cwd)
    [] cmd = "awk" ->
         IF Falsy(args, Len(args) - 1) \/ Len(args) < 2
         THEN Fail("awk: missing script or file", cwd)
         ELSE Ok("field1", cwd)

TextCommands ==
  {"less", "more", "head", "tail", "wc", "sort", "uniq", "cut", "tr", "sed",
   "awk"}

\* cases 'kill' .. 'help'
handle_system(cmd, args, cwd) ==
  CASE cmd = "kill" ->
         needsOperand(args, cwd, "kill: missing process ID",
                      "Process " \o ArgStr(args, 1) \o " terminated")
    [] cmd = "killall" ->
         needsOperand(args, cwd, "killall: missing process name",
                      "Killed all " \o ArgStr(args, 1) \o " processes")
    [] cmd = "pgrep" -> needsOperand(args, cwd, "pgrep: missing pattern", "1234")
    [] cmd = "pkill" ->
         needsOperand(args, cwd, "pkill: missing pattern",
                      "Killed processes matching '" \o ArgStr(args, 1) \o "'")
    [] cmd = "jobs" -> Ok("[1]+  Running                 long-running-script &", cwd)
    [] cmd = "bg" -> Ok("[1]+ long-running-script &", cwd)
    [] cmd = "fg" -> Ok("vim document.txt", cwd)
    [] cmd = "uptime" ->
         Ok(" 10:30:15 up 2 days,  3:45,  2 users,  load average: 0.15, 0.25, 0.30", cwd)
    [] cmd = "who" -> Ok("user     pts/0        2024-01-20 09:00 (192.168.1.100)", cwd)
    [] cmd = "w" ->
         Ok(" 10:30:15 up 2 days,  3:45,  2 users,  load average: 0.15, 0.25, 0.30", cwd)
    [] cmd = "last" ->
         Ok("user     pts/0        192.168.1.100    Sat Jan 20 09:00   still logged in", cwd)
    [] cmd = "id" ->
         LET user == ArgOr(args, 1, "user")
         IN  Ok("uid=1000(" \o user \o ") gid=1000(" \o user \o ") groups=1000("
                \o user \o ")", cwd)
    [] cmd = "history" -> Ok("    1  ls -la", cwd)
    [] cmd = "alias" ->
         IF Len(args) = 1 THEN Ok("alias ll='ls -la'", cwd)
         ELSE Ok("Alias '" \o ArgStr(args, 1) \o "' created", cwd)
    [] cmd = "unalias" ->
         needsOperand(args, cwd, "unalias: missing alias name",
                      "Alias '" \o ArgStr(args, 1) \o "' removed")
    [] cmd = "type" ->
         needsOperand(args, cwd, "type: missing argument",
                      ArgStr(args, 1) \o " is /usr/bin/" \o ArgStr(args, 1))
    [] cmd = "file" ->
         IF Falsy(args, 1) THEN Fail("file: missing file operand", cwd)
         ELSE IF args[2] = "readme.txt" THEN Ok("readme.txt: ASCII text", cwd)
         ELSE IF args[2] = "script.sh"
              THEN Ok("script.sh: Bourne-Again shell script, ASCII text executable", cwd)
         ELSE Fail(args[2] \o ": cannot open (No such file or directory)", cwd)
    [] cmd = "stat" ->
         readsFile(args, cwd, ArgStr(args, 1) = "readme.txt",
                   "stat: missing file operand", "  File: readme.txt",
                   "stat: cannot stat '" \o ArgStr(args, 1)
                   \o "': No such file or directory")
    [] cmd = "basename" ->
         IF Falsy(args, 1) THEN Fail("basename: missing operand", cwd)
         ELSE LET parts == split(args[2], "/") IN Ok(parts[Len(parts)], cwd)
    [] cmd = "dirname" ->
         IF Falsy(args, 1) THEN Fail("dirname: missing operand", cwd)
         ELSE LET parts == split(args[2], "/")
                  dir == join(SubSeq(parts, 1, Len(parts) - 1), "/")
              IN  Ok(IF dir = "" THEN "/" ELSE dir, cwd)
    [] cmd = "cal" ->
         IF arrIncludes(args, "-y") THEN Ok("                            2024", cwd)
         ELSE Ok("    January 2024", cwd)
    [] cmd = "gzip" ->
         needsOperand(args, cwd, "gzip: missing file operand",
                      "File '" \o ArgStr(args, 1) \o "' compressed to '"
                      \o ArgStr(args, 1) \o ".gz'")
    [] cmd = "gunzip" ->
         needsOperand(args, cwd, "gunzip: missing file operand",
                      "File '" \o ArgStr(args, 1) \o "' decompressed")
    [] cmd = "zip" ->
         IF Falsy(args, 1) \/ Len(args) <= 2
         THEN Fail("zip: missing archive name or files", cwd)
         ELSE Ok("  adding: " \o join(SubSeq(args, 3, Len(args)), "\n  adding: ")
                 \o "\nArchive '" \o args[2] \o "' created", cwd)
    [] cmd = "chgrp" ->
         needsTwoOperands(args, cwd, "chgrp: missing operand",
                          "Group ownership of '" \o ArgStr(args, 2)
                          \o "' changed to '" \o ArgStr(args, 1) \o "'")
    [] cmd = "umask" ->
         IF Len(args) = 1 THEN Ok("0022", cwd)
         ELSE Ok("umask set to " \o ArgStr(args, 1), cwd)
    [] cmd = "watch" ->
         IF join(Tail(args), " ") = "" THEN Fail("watch: missing command", cwd)
         ELSE Ok("Every 2.0s: " \o join(Tail(args), " "), cwd)
    [] cmd = "screen" -> Ok("Screen version 4.08.00 (GNU) 05-Feb-20", cwd)
    [] cmd = "tmux" -> Ok("tmux 3.1c", cwd)
    [] cmd = "xargs" ->
         IF Len(args) < 2 THEN Fail("xargs: missing command", cwd)
         ELSE Ok("xargs: executing command with piped input", cwd)
    [] cmd = "tee" ->
         needsOperand(args, cwd, "tee: missing file operand",
                      "Output written to both stdout and '" \o ArgStr(args, 1) \o "'")
    [] cmd = "help" -> Ok("AI Terminal - Linux Command Reference", cwd)

SystemCommands ==
  {"kill", "killall", "pgrep", "pkill", "jobs", "bg", "fg", "uptime", "who",
   "w", "last", "id", "history", "alias", "unalias", "type", "file", "stat",
   "basename", "dirname", "cal", "gzip", "gunzip", "zip", "chgrp", "umask",
   "watch", "screen", "tmux", "xargs", "tee", "help"}

\* cases 'nc' .. 'nohup'
handle_remote(cmd, args, cwd) ==
  CASE cmd = "nc" ->
         IF arrIncludes(args, "-l")
         THEN Ok("Listening on port " \o ArgOr(args, 2, "8080"), cwd)
         ELSE needsTwoOperands(args, cwd, "nc: missing host or port",
                               "Connected to " \o ArgStr(args, 1) \o " port "
                               \o ArgStr(args, 2))
    [] cmd = "telnet" ->
         needsOperand(args, cwd, "telnet: missing host",
                      "Trying " \o ArgStr(args, 1) \o "...")
    [] cmd = "ssh" ->
         needsOperand(args, cwd, "ssh: missing destination",
                      "Connecting to " \o ArgStr(args, 1) \o "...")
    [] cmd = "scp" ->
         needsTwoOperands(args, cwd, "scp: missing source or destination",
                          ArgStr(args, 1) \o " -> " \o ArgStr(args, 2))
    [] cmd = "rsync" ->
         needsTwoOperands(args, cwd, "rsync: missing source or destination",
                          "sending incremental file list\n" \o ArgStr(args, 1))
    [] cmd = "arp" ->
         IF arrIncludes(args, "-a")
         THEN Ok("? (192.168.1.1) at aa:bb:cc:dd:ee:ff [ether] on eth0", cwd)
         ELSE Ok("Address                  HWtype  HWaddress           Flags Mask            Iface", cwd)
    [] cmd = "route" -> Ok("Kernel IP routing table", cwd)
    [] cmd = "ip" ->
         IF arrIncludes(args, "addr")
         THEN Ok("1: lo: <LOOPBACK,UP,LOWER_UP> mtu 65536 qdisc noqueue state UNKNOWN group default qlen 1000", cwd)
         ELSE IF arrIncludes(args, "route")
         THEN Ok("default via 192.168.1.1 dev eth0 proto dhcp metric 100", cwd)
         ELSE IF arrIncludes(args, "link")
         THEN Ok("1: lo: <LOOPBACK,UP,LOWER_UP> mtu 65536 qdisc noqueue state UNKNOWN mode DEFAULT group default qlen 1000", cwd)
         ELSE Fail("ip: missing command. Try \"ip addr\", \"ip route\", or \"ip link\"", cwd)
    [] cmd = "ifconfig" ->
         Ok(ArgOr(args, 1, "eth0")
            \o ": flags=4163<UP,BROADCAST,RUNNING,MULTICAST>  mtu 1500", cwd)
    [] cmd = "iwconfig" -> Ok("wlan0     IEEE 802.11  ESSID:\"MyNetwork\"", cwd)
    [] cmd = "host" ->
         needsOperand(args, cwd, "host: missing hostname",
                      ArgStr(args, 1) \o " has address 142.250.191.14")
    [] cmd = "tracepath" ->
         Ok("tracepath to " \o ArgOr(args, 1, "google.com")
            \o " (142.250.191.14), 30 hops max", cwd)
    [] cmd = "lsusb" ->
         Ok("Bus 001 Device 001: ID 1d6b:0002 Linux Foundation 2.0 root hub", cwd)
    [] cmd = "lspci" ->
         Ok("00:00.0 Host bridge: Intel Corporation Device 1234", cwd)
    [] cmd = "mount" ->
         IF Len(args) = 1 THEN Ok("/dev/sda1 on / type ext4 (rw,relatime)", cwd)
         ELSE Ok("Mounted " \o ArgStr(args, 1) \o " on " \o ArgStr(args, 2), cwd)
    [] cmd = "umount" ->
         needsOperand(args, cwd, "umount: missing mountpoint",
                      "Unmounted " \o ArgStr(args, 1))
    [] cmd = "nohup" ->
         IF join(Tail(args), " ") = "" THEN Fail("nohup: missing command", cwd)
         ELSE Ok("nohup: ignoring input and appending output to 'nohup.out'", cwd)

RemoteCommands ==
  {"nc", "telnet", "ssh", "scp", "rsync", "arp", "route", "ip", "ifconfig",
   "iwconfig", "host", "tracepath", "lsusb", "lspci", "mount", "umount",
   "nohup"}

\* the default case with the exit code of an ordinary failure
handle_default_exit1(cmd, cwd) ==
  [output |-> cmd \o ": command not found\n\n"
                \o "Try 'help' to see available commands or ask the AI assistant for guidance!",
   exitCode |-> 1, newDirectory |-> cwd, thrown |-> null]

\* the default case
handle_default(cmd, cwd) ==
  [output |-> cmd \o ": command not found\n\n"
                \o "Try 'help' to see available commands or ask the AI assistant for guidance!",
   exitCode |-> 127, newDirectory |-> cwd, thrown |-> null]

\* switch (cmd): the body of the try block
switchCmd(cmd, args, cwd, fs, now, r) ==
  CASE cmd = "ls" -> handle_ls(args, cwd, fs, now)
    [] cmd = "pwd" -> handle_pwd(args, cwd)
    [] cmd = "cd" -> handle_cd(args, cwd, fs)
    [] cmd = "cat" -> handle_cat(args, cwd)
    [] cmd = "ping" -> handle_ping(args, cwd, r)
    [] cmd \in NetworkCommands -> handle_network(cmd, args, cwd)
    [] cmd \in FileOpsCommands -> handle_fileops(cmd, args, cwd)
    [] cmd \in TextCommands -> handle_text(cmd, args, cwd)
    [] cmd \in SystemCommands -> handle_system(cmd, args, cwd)
    [] cmd \in RemoteCommands -> handle_remote(cmd, args, cwd)
    [] OTHER -> handle_default(cmd, cwd)

\* no catch clause: the thrown value leaves executeCommand
catchError_rethrows(res) == res

\* the catch clause: a thrown value becomes the output, with exit code 1
catchError(res) ==
  IF res.thrown # null
  THEN [output |-> "Error executing command: " \o res.thrown[1],
        exitCode |-> 1, newDirectory |-> res.newDirectory, thrown |-> null]
  ELSE res

\* variant: the record carries the directory after the command
runCommand_recordsNewDirectory(inv, now, r) ==
  CHOOSE result \in
    { [thrown |-> res.thrown,
       newDirectory |-> res.newDirectory,
       terminalCommand |->
         [id |-> inv.commandId, command |-> inv.command,
          output |-> res.output, timestamp |-> inv.timestamp,
          exitCode |-> res.exitCode,
          directory |-> res.newDirectory]] :
        res \in
          { catchError(switchCmd(args[1], args, inv.state.currentDirectory,
                                 inv.state.fileSystem, now, r)) :
              args \in {split(trim(inv.command), " ")} } } : TRUE

\* executeCommand from the end of the delay to the construction of the
\* record.  inv is the invocation: the command, the id and timestamp taken
\* before the delay, and the `state` its closure captured.
\* (`args` and the locals the try block leaves behind are values computed
\* once: they are bound as elements of one-element sets)
runCommand(inv, now, r) ==
  CHOOSE result \in
    { [thrown |-> res.thrown,
       newDirectory |-> res.newDirectory,
       terminalCommand |->
         [id |-> inv.commandId, command |-> inv.command,
          output |-> res.output, timestamp |-> inv.timestamp,
          exitCode |-> res.exitCode,
          directory |-> inv.state.currentDirectory]] :
        res \in
          { catchError(switchCmd(args[1], args, inv.state.currentDirectory,
                                 inv.state.fileSystem, now, r)) :
              args \in {split(trim(inv.command), " ")} } } : TRUE

\* ------------------------------------------------------------------------
\* The session: useTerminal's state, the Terminal component around it
\* ------------------------------------------------------------------------
VARIABLES
  currentDirectory,   \* state.currentDirectory
  history,            \* state.history
  fileSystem,         \* state.fileSystem
  isExecuting,        \* state.isExecuting
  currentCommand,     \* Terminal: the text of the input
  workflowPrediction, \* Terminal: the prediction shown, or null
  pending,            \* executeCommand calls waiting in their delay
  settled,            \* how the last executeCommand promise settled (and
                      \* the call it belongs to), or null
  clock,              \* Date.now(), in ms since the start of the session
  predicted           \* <<v>> once predictWorkflow was called on its own
                      \* and returned v (PredictSpec), <<>> before

vars == <<currentDirectory, history, fileSystem, isExecuting, currentCommand,
          workflowPrediction, pending, settled, clock, predicted>>

\* the delay is Math.random() * 500 + 200 ms
MinDelay == 200
MaxDelay == 699
\* variant: the call returns in the millisecond of its submission
Delays_immediate == {0}
Delays == {MinDelay, MaxDelay}

\* what the user types into the input
Inputs ==
  {"cd projects", "cd ..", "cd nowhere", "cd /", "pwd", " clear ",
   "clear x", "   ", "ping -c 99999999999",
   "mkdir nowhere"}

\* the prediction effect of Terminal, run after every render
predictionEffect(cmdText, hist, executing) ==
  IF Len(cmdText) > 2 /\ ~executing THEN predictWorkflow(cmdText, hist)
  ELSE null

Init ==
  /\ currentDirectory = "/home/user"
  /\ history = <<>>
  /\ fileSystem = mockFileSystem
  /\ isExecuting = FALSE
  /\ currentCommand = ""
  /\ workflowPrediction = null
  /\ pending = <<>>
  /\ settled = null
  /\ clock = 0
  /\ predicted = <<>>

\* onChange of the input.  The handler has no guard of its own; the input
\* element is rendered disabled while isExecuting.
onChange(text) ==
  /\ currentCommand' = text
  /\ workflowPrediction' = predictionEffect(text, history, isExecuting)
  /\ UNCHANGED <<currentDirectory, history, fileSystem, isExecuting, pending,
                 settled, clock, predicted>>

\* handleKeyDown, Tab with a prediction: the prediction replaces the input
acceptPrediction ==
  /\ workflowPrediction # null
  /\ currentCommand' = workflowPrediction[1]
  /\ workflowPrediction' =
       predictionEffect(workflowPrediction[1], history, isExecuting)
  /\ UNCHANGED <<currentDirectory, history, fileSystem, isExecuting, pending,
                 settled, clock, predicted>>

\* the guard of handleSubmit without `|| isExecuting`
submitAccepted_ignoresExecuting(text, executing) == trim(text) # ""

\* the guard of handleSubmit: the submission is accepted
submitAccepted(text, executing) == trim(text) # "" /\ ~executing

\* clearHistory refusing to act while a command executes
clearHistory_whenIdle ==
  /\ ~isExecuting
  /\ history' = <<>>
  /\ workflowPrediction' = predictionEffect(currentCommand, <<>>, isExecuting)
  /\ UNCHANGED <<currentDirectory, fileSystem, isExecuting, currentCommand,
                 pending, settled, clock, predicted>>

\* clearHistory
clearHistory ==
  /\ history' = <<>>
  /\ workflowPrediction' = predictionEffect(currentCommand, <<>>, isExecuting)
  /\ UNCHANGED <<currentDirectory, fileSystem, isExecuting, currentCommand,
                 pending, settled, clock, predicted>>

\* the test without the interception: no command is taken for clear
isClearCommand_never(command) == FALSE

\* the test on the command name alone
isClearCommand_firstToken(command) == split(command, " ")[1] = "clear"

\* `command === 'clear'`: the submission is handed to clearHistory
isClearCommand(command) == command = "clear"

\* handleSubmit on Enter: an ignored submission returns at once; "clear" is
\* handed to clearHistory; everything else starts executeCommand, which sets
\* isExecuting, takes the id and the timestamp and waits for its delay.
\* submitLen, the length of the history on the screen at that moment, is
\* kept with the call for the properties; the call does not read it.
handleSubmit ==
  /\ currentCommand # ""
  /\ IF ~submitAccepted(currentCommand, isExecuting)
     THEN UNCHANGED vars
     ELSE /\ currentCommand' = ""
          /\ workflowPrediction' = null
          /\ predicted' = predicted
          /\ IF isClearCommand(trim(currentCommand))
             THEN /\ history' = <<>>
                  /\ UNCHANGED <<currentDirectory, fileSystem, isExecuting,
                                 pending, settled, clock>>
             ELSE /\ Len(history) < MaxHistory
                  /\ clock < MaxClock
                  /\ isExecuting' = TRUE
                  /\ pending' = Append(pending,
                       [command |-> trim(currentCommand),
                        commandId |-> ToString(clock),
                        timestamp |-> clock,
                        state |-> [currentDirectory |-> currentDirectory,
                                   fileSystem |-> fileSystem],
                        submitLen |-> Len(history)])
                  /\ UNCHANGED <<currentDirectory, history, fileSystem,
                                 settled, clock>>

\* the updater without `isExecuting: false`
commitState_keepsExecuting(prev, newDirectory, terminalCommand) ==
  [currentDirectory |-> newDirectory,
   history |-> Append(prev.history, terminalCommand),
   fileSystem |-> prev.fileSystem,
   isExecuting |-> prev.isExecuting]

\* the updater without the spread of prev.history
commitState_replacesHistory(prev, newDirectory, terminalCommand) ==
  [currentDirectory |-> newDirectory,
   history |-> <<terminalCommand>>,
   fileSystem |-> prev.fileSystem,
   isExecuting |-> FALSE]

\* variant: the updater stores a file system with a new entry in the
\* directory of the session
commitState_createsEntry(prev, newDirectory, terminalCommand) ==
  [currentDirectory |-> newDirectory,
   history |-> Append(prev.history, terminalCommand),
   fileSystem |->
     [p \in DOMAIN prev.fileSystem |->
        IF p = newDirectory
        THEN Append(prev.fileSystem[p],
                    [name |-> "nowhere", type |-> "directory",
                     permissions |-> "drwxr-xr-x"])
        ELSE prev.fileSystem[p]],
   isExecuting |-> FALSE]

\* variant: the updater keeps the directory of prev
commitState_keepsDirectory(prev, newDirectory, terminalCommand) ==
  [currentDirectory |-> prev.currentDirectory,
   history |-> Append(prev.history, terminalCommand),
   fileSystem |-> prev.fileSystem,
   isExecuting |-> FALSE]

\* the updater of the final setState, applied to the state of that moment
commitState(prev, newDirectory, terminalCommand) ==
  [currentDirectory |-> newDirectory,
   history |-> Append(prev.history, terminalCommand),
   fileSystem |-> prev.fileSystem,
   isExecuting |-> FALSE]

\* the delay of a pending call ends and the call runs to its return: the
\* record is committed and the promise is fulfilled with it; a value that
\* escaped the catch clause would reject the promise before the commit
completeCommand(i, delay, r) ==
  /\ i \in 1..Len(pending)
  /\ \E out \in {runCommand(pending[i], clock + delay, r)} :
     \E next \in {commitState([currentDirectory |-> currentDirectory,
                               history |-> history,
                               fileSystem |-> fileSystem,
                               isExecuting |-> isExecuting],
                              out.newDirectory, out.terminalCommand)} :
         /\ clock' = clock + delay
         /\ pending' = SubSeq(pending, 1, i - 1) \o SubSeq(pending, i + 1, Len(pending))
         /\ IF out.thrown # null
            THEN /\ settled' = [status |-> "rejected", value |-> out.thrown[1],
                                command |-> pending[i].command,
                                submitLen |-> pending[i].submitLen]
                 /\ UNCHANGED <<currentDirectory, history, fileSystem,
                                isExecuting, workflowPrediction>>
            ELSE /\ settled' = [status |-> "fulfilled",
                                value |-> out.terminalCommand,
                                command |-> pending[i].command,
                                submitLen |-> pending[i].submitLen]
                 /\ currentDirectory' = next.currentDirectory
                 /\ history' = next.history
                 /\ fileSystem' = next.fileSystem
                 /\ isExecuting' = next.isExecuting
                 /\ workflowPrediction' =
                      predictionEffect(currentCommand, next.history,
                                       next.isExecuting)
         /\ UNCHANGED <<currentCommand, predicted>>

Next ==
  \/ \E text \in Inputs : onChange(text)
  \/ acceptPrediction
  \/ handleSubmit
  \/ clearHistory
  \/ \E i \in 1..Len(pending), delay \in Delays, r \in RandomSamples :
       completeCommand(i, delay, r)

Spec == Init /\ [][Next]_vars

\* the timer of a pending call always fires
\* setTimeout(resolve, delay): the timer of a call that waits does fire.
\* timerFires is the step in which a waiting call leaves pending; only
\* completeCommand takes such a step, and it can whenever a call waits.
timerFires ==
  \E i \in 1..Len(pending) :
    pending' = SubSeq(pending, 1, i - 1) \o SubSeq(pending, i + 1, Len(pending))

FairSpec == Spec /\ WF_pending(timerFires)

\* ------------------------------------------------------------------------
\* executeCommand on its own: one call, from the moment handleSubmit has
\* started it in some directory to its return
\* ------------------------------------------------------------------------
\* the case labels of the switch
HandlerNames ==
  {"ls", "pwd", "cd", "cat", "ping"} \cup NetworkCommands \cup FileOpsCommands
    \cup TextCommands \cup SystemCommands \cup RemoteCommands

\* the keys of the registry LINUX_COMMANDS
LINUX_COMMANDS ==
  {"ls", "cd", "pwd", "mkdir", "rmdir", "rm", "cp", "mv", "ln", "find",
   "locate", "which", "whereis", "cat", "less", "more", "head", "tail",
   "grep", "egrep", "fgrep", "sed", "awk", "cut", "sort", "uniq", "wc",
   "tr", "ping", "curl", "wget", "netstat", "ss", "traceroute",
   "tracepath", "nslookup", "dig", "host", "arp", "route", "ip",
   "ifconfig", "iwconfig", "lsof", "nc", "telnet", "ssh", "scp", "rsync",
   "ps", "top", "htop", "kill", "killall", "pgrep", "pkill", "jobs", "bg",
   "fg", "nohup", "df", "du", "free", "uptime", "uname", "lscpu", "lsblk",
   "lsusb", "lspci", "mount", "umount", "chmod", "chown", "chgrp", "umask",
   "tar", "gzip", "gunzip", "zip", "unzip", "echo", "date", "cal",
   "whoami", "id", "who", "w", "last", "history", "alias", "unalias",
   "type", "file", "stat", "touch", "basename", "dirname", "xargs", "tee",
   "watch", "screen", "tmux"}

\* first tokens that are no case label
OtherNames ==
  {"LS", "Pwd", "top", "htop", "chmod", "chown", "tar", "unzip", "lsblk",
   "git", "lsx", "unknowncmd", "constructor", "ls\t-l", "egrep", "fgrep"}

ExecArguments ==
  {"", " readme.txt", " a b", " -c 99999999999", " constructor", " ..",
   " nowhere", "  x", " .bashrc", " /var/log/syslog", " -la", " /home -l"}

\* cd with the targets of its four cases
CdInputs ==
  {"cd ~", "cd /home", "cd /home/user/projects", "cd /home/", "cd //",
   "cd home", "cd user", "cd projects", "cd ./projects", "cd ../.."}

\* the suggestions of the static prediction table
Suggestions == {workflowPatterns[i][2] : i \in 1..Len(workflowPatterns)}

\* ping with the values its -c flag can carry
PingInputs ==
  {"ping -c 2", "ping example.com -c 3", "ping -c 3x", "ping -c x",
   "ping -c", "ping -c 0", "ping -c -1"}

ExecInputs ==
  {n \o a : n \in HandlerNames \cup OtherNames, a \in ExecArguments}
    \cup CdInputs \cup PingInputs \cup Suggestions

InitExec ==
  \E cmd \in ExecInputs, dir \in DOMAIN mockFileSystem :
    /\ currentDirectory = dir
    /\ history = <<>>
    /\ fileSystem = mockFileSystem
    /\ isExecuting = TRUE
    /\ currentCommand = ""
    /\ workflowPrediction = null
    /\ pending = << [command |-> cmd, commandId |-> "0", timestamp |-> 0,
                     state |-> [currentDirectory |-> dir,
                                fileSystem |-> mockFileSystem],
                     submitLen |-> 0] >>
    /\ settled = null
    /\ clock = 0
    /\ predicted = <<>>

NextExec ==
  \E delay \in Delays, r \in RandomSamples : completeCommand(1, delay, r)

ExecSpec == InitExec /\ [][NextExec]_vars

\* ------------------------------------------------------------------------
\* predictWorkflow on its own: one call on an input and a history
\* ------------------------------------------------------------------------
PatternPrefixes ==
  UNION {{SubSeq(workflowPatterns[i][1], 1, k) :
            k \in 0..Len(workflowPatterns[i][1])} :
         i \in 1..Len(workflowPatterns)}

PredictInputs ==
  PatternPrefixes \cup Suggestions \cup
  {" Fin ", "FIND", "Git", "git ", "git", "git s", "tr", "Trace", "ns", "gr",
   "grip", "xyz", "nslookup google.com", "git add .",
   "git commit -m \"Update\"", "git push origin main", "   "}

\* the record a session holds after it ran cmd in the home directory
recordOf(cmd, id) ==
  runCommand([command |-> cmd, commandId |-> ToString(id), timestamp |-> id,
              state |-> [currentDirectory |-> "/home/user",
                         fileSystem |-> mockFileSystem],
              submitLen |-> 0], id + MinDelay, 0).terminalCommand

LastCommands ==
  {"git status", "GIT STATUS", "git add .", "git commit -m x",
   "git add . && git status", "ping -c 4 google.com", "find . -name x", "ls"}

PredictHistories ==
  {<<>>} \cup {<<recordOf(c, 0)>> : c \in LastCommands}
    \cup {<<recordOf(c, 0), recordOf("ls", 200)>> : c \in {"git status", "ping h"}}
    \cup {<<recordOf("ls", 0), recordOf(c, 200)>> :
            c \in {"git status", "ping -c 4 google.com"}}

InitPredict ==
  /\ currentDirectory = "/home/user"
  /\ history \in PredictHistories
  /\ fileSystem = mockFileSystem
  /\ isExecuting = FALSE
  /\ currentCommand \in PredictInputs
  /\ workflowPrediction = null
  /\ pending = <<>>
  /\ settled = null
  /\ clock = 400
  /\ predicted = <<>>

callPredict ==
  /\ predicted = <<>>
  /\ predicted' = <<predictWorkflow(currentCommand, history)>>
  /\ UNCHANGED <<currentDirectory, history, fileSystem, isExecuting,
                 currentCommand, workflowPrediction, pending, settled, clock>>

NextPredict == callPredict

PredictSpec == InitPredict /\ [][NextPredict]_vars

\* ------------------------------------------------------------------------
\* Properties
\* ------------------------------------------------------------------------
\* a step in which a pending call returns
Completes == Len(pending) = 1 /\ pending' = <<>>

\* the first token of a command line: what precedes its first space
firstToken(command) == split(command, " ")[1]

\* C1: in every reachable state of a session, currentDirectory is one of
\* the four keys of the VFS mapping.
C1_CurrentDirectoryIsVfsKey ==
  currentDirectory \in {"/", "/home", "/home/user", "/home/user/projects"}

\* a successful cd has moved the session out of its initial directory
C1_Witness ==
  /\ currentDirectory = "/home/user/projects"
  /\ \E i \in 1..Len(history) :
       history[i].command = "cd projects" /\ history[i].exitCode = 0

\* C2: when a cd submission resolves to a path that is not a key of the
\* VFS, its record has exit code 1, its output contains "No such file or
\* directory", and currentDirectory after the completion is what it was
\* when the command was submitted.
C2_FailedCdKeepsDirectory ==
  [][(/\ Completes
      /\ firstToken(pending[1].command) = "cd"
      /\ cdTarget(split(pending[1].command, " "),
                  pending[1].state.currentDirectory) \notin DOMAIN fileSystem)
     => (/\ settled'.status = "fulfilled"
         /\ settled'.value.exitCode = 1
         /\ strIncludes(settled'.value.output, "No such file or directory")
         /\ history' = Append(history, settled'.value)
         /\ currentDirectory' = pending[1].state.currentDirectory
         /\ currentDirectory' = currentDirectory)]_vars

\* a failed cd is on record and the session is where the record was made
C2_Witness ==
  \E i \in 1..Len(history) :
    /\ history[i].command = "cd nowhere"
    /\ history[i].exitCode = 1
    /\ currentDirectory = history[i].directory

\* C3 as stated: the history is, when an accepted submission completes,
\* exactly one longer than it was when the command was submitted, whatever
\* clear operations ran in between.
C3_OneLongerThanAtSubmission ==
  [][Completes => Len(history') = pending[1].submitLen + 1]_vars

\* C3, amended: when an accepted non-clear submission completes, the
\* history is exactly one longer than it was just before the completion;
\* that is one longer than at submission when no clear ran in between, and
\* exactly one record when one did.
C3_OneLongerThanBeforeCompletion ==
  [][Completes =>
       /\ Len(history') = Len(history) + 1
       /\ \/ Len(history) = pending[1].submitLen
          \/ Len(history) = 0]_vars

\* a command submitted under one record has completed into a cleared
\* history
C3_Witness ==
  /\ settled # null
  /\ settled.submitLen = 1
  /\ history = <<settled.value>>

\* C4: at most one executeCommand call is in flight at any time, and a
\* submission made while isExecuting is ignored: while isExecuting, no step
\* but the return of the pending call starts a call, takes the input,
\* appends a record or changes the directory (the history can only be
\* emptied, by clearHistory).
C4_Serialized ==
  /\ [](Len(pending) <= 1 /\ (isExecuting <=> pending # <<>>))
  /\ [][isExecuting =>
          \/ Completes
          \/ /\ pending' = pending
             /\ isExecuting'
             /\ currentDirectory' = currentDirectory
             /\ settled' = settled
             /\ history' = history \/ history' = <<>>
             /\ currentCommand # "" => currentCommand' # ""]_vars

\* a command line stands in the input while a call is in flight
C4_Witness ==
  /\ isExecuting
  /\ Len(pending) = 1
  /\ trim(currentCommand) \notin {"", "clear"}

\* C5: a submission handed to executeCommand sets isExecuting at once;
\* isExecuting then returns to false (the timer being fair), in a step that
\* appends exactly one record, the one of that command, also when the
\* handler throws.
C5_RunsToCompletion ==
  /\ [][Len(pending') > Len(pending) => isExecuting']_vars
  /\ isExecuting ~> ~isExecuting
  /\ [][(isExecuting /\ ~isExecuting') =>
          /\ Completes
          /\ settled'.status = "fulfilled"
          /\ settled'.value.command = pending[1].command
          /\ history' = Append(history, settled'.value)]_vars

\* a command whose handler threw has completed
C5_Witness ==
  /\ ~isExecuting
  /\ settled # null
  /\ settled.status = "fulfilled"
  /\ startsWith(settled.value.output, "Error executing command: RangeError")
  /\ Len(history) > 0
  /\ history[Len(history)] = settled.value

\* C6: clearHistory can act in every state, executing or not, and a step
\* that empties the history changes neither the directory nor the
\* execution in progress, and leaves no record.
C6_ClearFrame ==
  /\ [](ENABLED clearHistory)
  /\ [][(history # <<>> /\ history' = <<>>) =>
          /\ currentDirectory' = currentDirectory
          /\ isExecuting' = isExecuting
          /\ pending' = pending
          /\ settled' = settled
          /\ fileSystem' = fileSystem]_vars

\* the history was emptied while a command was executing
C6_Witness ==
  /\ isExecuting
  /\ Len(pending) = 1
  /\ pending[1].submitLen > 0
  /\ history = <<>>

\* C7: the record of a call has exit code 127 exactly when the first token
\* of the command is none of the case labels; its output then contains
\* "command not found" and the directory is the one of the submission.
C7_NotFoundIffNoHandler ==
  settled # null =>
    /\ settled.status = "fulfilled"
    /\ settled.value.exitCode = 127
         <=> firstToken(settled.command) \notin HandlerNames
    /\ settled.value.exitCode = 127 =>
         /\ strIncludes(settled.value.output, "command not found")
         /\ currentDirectory = settled.value.directory

\* a handler name in upper case was not found
C7_Witness ==
  /\ settled # null
  /\ settled.command = "LS readme.txt"
  /\ settled.value.exitCode = 127

\* C8: every call of executeCommand fulfils its promise with a record that
\* carries the submitted text and an exit code among 0, 1 and 127, also
\* when the handler throws, and the next submission is accepted.
C8_AlwaysResolves ==
  settled # null =>
    /\ settled.status = "fulfilled"
    /\ settled.value.command = settled.command
    /\ settled.value.exitCode \in {0, 1, 127}
    /\ history = <<settled.value>>
    /\ submitAccepted("pwd", isExecuting)

\* a call whose handler threw a TypeError has returned its record
C8_Witness ==
  /\ settled # null
  /\ settled.status = "fulfilled"
  /\ settled.value.exitCode = 1
  /\ startsWith(settled.value.output, "Error executing command: TypeError")

\* C9: predictWorkflow(x, h) never returns a string equal to x.
C9_NeverReturnsInput ==
  predicted # <<>> => predicted[1] # Some(currentCommand)

\* the key is a prefix of the input, and not the input itself
keyIsPrefixOfInput(key, input) ==
  Len(key) < Len(input) /\ SubSeq(input, 1, Len(key)) = key

\* the input is a prefix of the key, and not the key itself
inputIsPrefixOfKey(key, input) ==
  Len(input) < Len(key) /\ SubSeq(key, 1, Len(input)) = input

\* the entries whose key is a proper prefix of the input
keysPrefixingInput(input) ==
  {i \in 1..Len(workflowPatterns) :
     keyIsPrefixOfInput(workflowPatterns[i][1], input)}

\* the entries whose key the input is a proper prefix of
keysPrefixedByInput(input) ==
  {i \in 1..Len(workflowPatterns) :
     inputIsPrefixOfKey(workflowPatterns[i][1], input)}

\* the suggestion of the first of the selected entries, in table order;
\* null if none is selected
firstSuggestion(selected) ==
  IF selected = {} THEN null
  ELSE Some(workflowPatterns[CHOOSE i \in selected :
                               \A j \in selected : i <= j][2])

\* what a static phase whose first selected suggestion is s lets
\* predictWorkflow return: s, and nothing when no entry is selected and
\* there is no history to consult
staticPhaseReturns(s) ==
  predicted # <<>> =>
    IF s # null THEN predicted[1] = s
    ELSE history = <<>> => predicted[1] = null

\* C10 as stated: the static phase returns the suggestion of the first
\* entry whose key is a prefix of the input and is not identical to it.
C10_FirstKeyThatPrefixesInput ==
  staticPhaseReturns(
    firstSuggestion(keysPrefixingInput(trim(toLowerCase(currentCommand)))))

\* C10, amended: the static phase returns the suggestion of the first
\* entry, in table order, whose key has the trimmed, lower-cased input as a
\* prefix and is not identical to it.
C10_FirstKeyThatInputPrefixes ==
  staticPhaseReturns(
    firstSuggestion(keysPrefixedByInput(trim(toLowerCase(currentCommand)))))

\* an input in mixed case with spaces around it was completed to the
\* suggestion of the first key it is a prefix of
C10_Witness ==
  /\ currentCommand = " Fin "
  /\ predicted = <<Some("find . -name \"*.txt\" -type f")>>

\* C11: whenever the trimmed, lower-cased input is a proper prefix of some
\* pattern key, predictWorkflow returns the suggestion of the first such key
\* in table order, whatever the history is.
C11_StaticMatchWins ==
  predicted # <<>> =>
    \A i \in 1..Len(workflowPatterns) :
      (/\ inputIsPrefixOfKey(workflowPatterns[i][1],
                             trim(toLowerCase(currentCommand)))
       /\ \A j \in 1..(i - 1) :
            ~inputIsPrefixOfKey(workflowPatterns[j][1],
                                trim(toLowerCase(currentCommand))))
      => predicted[1] = Some(workflowPatterns[i][2])

\* "t" is a prefix of the keys "tail", "traceroute", "top" and "tar": the
\* suggestion is the one of "tail", the first of them, also after a ping
C11_Witness ==
  /\ currentCommand = "t"
  /\ Len(history) = 1
  /\ history[1].command = "ping -c 4 google.com"
  /\ predicted = <<Some("tail -f /var/log/syslog")>>

\* C12: when the input is a proper prefix of no key, the result is decided
\* by the lower-cased command of the last record alone: for the input "git"
\* the first of "git status", "git add", "git commit" it contains gives the
\* add, commit and push suggestions; "ping" with an input starting with
\* "tr" or "ns" gives traceroute or nslookup; "find" with an input starting
\* with "gr" gives grep; otherwise, and with an empty history, there is none.
C12_ContextDecisionTable ==
  LET input == trim(toLowerCase(currentCommand))
      last == IF history = <<>> THEN ""
              ELSE toLowerCase(history[Len(history)].command)
  IN  (predicted # <<>> /\ keysPrefixedByInput(input) = {}) =>
        predicted[1] =
          IF history = <<>> THEN null
          ELSE IF input = "git" /\ strIncludes(last, "git status")
          THEN Some("git add .")
          ELSE IF input = "git" /\ strIncludes(last, "git add")
          THEN Some("git commit -m \"Update\"")
          ELSE IF input = "git" /\ strIncludes(last, "git commit")
          THEN Some("git push origin main")
          ELSE IF strIncludes(last, "ping") /\ startsWith(input, "tr")
          THEN Some("traceroute google.com")
          ELSE IF strIncludes(last, "ping") /\ startsWith(input, "ns")
          THEN Some("nslookup google.com")
          ELSE IF strIncludes(last, "find") /\ startsWith(input, "gr")
          THEN Some("grep -r \"pattern\" .")
          ELSE null

\* the last command contains both "git add" and "git status": for "git"
\* the rule of "git status", the first in order, decided
C12_Witness ==
  /\ currentCommand = "git"
  /\ Len(history) = 1
  /\ history[1].command = "git add . && git status"
  /\ predicted = <<Some("git add .")>>

\* C13: the predictor is consulted only when the trimmed, lower-cased input
\* is longer than 2 and nothing executes; in every other state the
\* prediction shown is none.
C13_PredictorGuard ==
  (Len(trim(toLowerCase(currentCommand))) <= 2 \/ isExecuting)
    => workflowPrediction = null

\* C14: the result of predictWorkflow depends on the input and on the
\* command text of the last record of history only (a history with the same
\* last command text, or an equally empty one, gives the same result), and
\* the call changes neither the history nor any other part of the session.
C14_DependsOnLastCommandOnly ==
  /\ [](predicted # <<>> =>
         \A h \in PredictHistories :
           (\/ h = <<>> /\ history = <<>>
            \/ /\ h # <<>>
               /\ history # <<>>
               /\ h[Len(h)].command = history[Len(history)].command)
           => predictWorkflow(currentCommand, h) = predicted[1])
  /\ [][predicted' # predicted =>
          UNCHANGED <<currentDirectory, history, fileSystem, isExecuting,
                      currentCommand, workflowPrediction, pending, settled,
                      clock>>]_vars

\* "git" after "ls" and then "git status" got the suggestion that "git"
\* gets after "git status" alone
C14_Witness ==
  /\ currentCommand = "git"
  /\ Len(history) = 2
  /\ history[1].command = "ls"
  /\ history[2].command = "git status"
  /\ predicted = <<Some("git add .")>>

\* C15: no record of history has the command text "clear": a submission
\* that trims to "clear" starts no call and leaves no record, it empties
\* the history and nothing else of the session; every other accepted
\* submission starts one call, whose return adds exactly one record.
C15_ClearNeverRecorded ==
  /\ [](\A k \in 1..Len(history) : history[k].command # "clear")
  /\ [][(/\ trim(currentCommand) = "clear"
          /\ ~isExecuting
          /\ currentCommand' = "") =>
          /\ history' = <<>>
          /\ UNCHANGED <<currentDirectory, fileSystem, isExecuting, pending,
                         settled>>]_vars
  /\ [][Len(pending') > Len(pending) =>
          /\ trim(currentCommand) \notin {"", "clear"}
          /\ pending'[Len(pending')].command = trim(currentCommand)
          /\ history' = history]_vars
  /\ [][Completes =>
          /\ Len(history') = Len(history) + 1
          /\ history'[Len(history')].command = pending[1].command]_vars

\* "clear x" was not intercepted: it ran in the executor and returned its
\* record; the history has been emptied since and holds no record
C15_Witness ==
  /\ history = <<>>
  /\ ~isExecuting
  /\ currentCommand = ""
  /\ pending = <<>>
  /\ settled # null
  /\ settled.command = "clear x"
  /\ settled.value.exitCode = 0

\* C16: for cat, head, tail, less, more, wc, stat and file, a call with a
\* file name returns exit code 0 exactly when the name is readme.txt or
\* .bashrc, and otherwise exit code 1 with "No such file or directory", in
\* every directory.
C16_TwoVirtualFiles ==
  LET args == split(trim(IF settled = null THEN "" ELSE settled.command), " ")
  IN  (/\ settled # null
       /\ args[1] \in {"cat", "head", "tail", "less", "more", "wc", "stat",
                       "file"}
       /\ Len(args) >= 2
       /\ args[2] # "") =>
        /\ settled.status = "fulfilled"
        /\ settled.value.exitCode = 0 <=> args[2] \in {"readme.txt", ".bashrc"}
        /\ settled.value.exitCode # 0 =>
             /\ settled.value.exitCode = 1
             /\ strIncludes(settled.value.output, "No such file or directory")

\* C17: ls lists the entries of its path argument, and of the current
\* directory when no path is given: "ls -l" and "ls -la" give one line per
\* entry of the current directory, in order, with permissions, owner, size
\* (4096 when the entry has none) and name; without the flag the names are
\* joined by two spaces; an unknown path gives empty output and exit code 0.
C17_LsListing ==
  LET args == split(trim(IF settled = null THEN "" ELSE settled.command), " ")
      here == IF settled = null THEN <<>>
              ELSE mockFileSystem[settled.value.directory]
  IN  (settled # null /\ args[1] = "ls") =>
        /\ settled.status = "fulfilled"
        /\ settled.value.exitCode = 0
        /\ args \in {<<"ls", "-l">>, <<"ls", "-la">>} =>
             settled.value.output =
               join([k \in 1..Len(here) |->
                       lsLongLine(here[k], settled.value.timestamp)], "\n")
        /\ args = <<"ls">> =>
             settled.value.output =
               join([k \in 1..Len(here) |-> here[k].name], "  ")
        /\ (Len(args) = 2 /\ args[2] \notin {"-l", "-la"}
              /\ args[2] \notin DOMAIN mockFileSystem) =>
             settled.value.output = ""

\* C18: a call of ping, curl, wget, netstat, ss, traceroute, nslookup, dig,
\* ps, df, du, free, lsof, chmod or tar, with any arguments, never ends in
\* the command-not-found result (exit code 127).
C18_UtilitiesHaveHandlers ==
  (/\ settled # null
   /\ firstToken(settled.command) \in
        {"ping", "curl", "wget", "netstat", "ss", "traceroute", "nslookup",
         "dig", "ps", "df", "du", "free", "lsof", "chmod", "tar"}) =>
    /\ settled.status = "fulfilled"
    /\ settled.value.exitCode # 127

\* C19: a call whose command name is a key of the registry LINUX_COMMANDS
\* never ends in the command-not-found result (exit code 127).
C19_RegistryIsExecutable ==
  (settled # null /\ firstToken(settled.command) \in LINUX_COMMANDS) =>
    /\ settled.status = "fulfilled"
    /\ settled.value.exitCode # 127

\* C20: cd resolves its target so: no argument or "~" gives /home/user and
\* succeeds in every directory; ".." gives the parent of the current
\* directory (the root for the root) and succeeds with exit code 0 in every
\* directory of the file system; a target with a leading "/" is taken as
\* it is; any other target is appended to the current directory with one
\* "/" (none after the root).  The call succeeds and moves there when the
\* resolved path is a directory of the file system, and fails in place
\* otherwise.
C20_CdResolution ==
  LET args == split(trim(IF settled = null THEN "" ELSE settled.command), " ")
      from == IF settled = null THEN "/" ELSE settled.value.directory
      noTarget == Len(args) < 2 \/ args[2] = ""
      resolved ==
        IF noTarget THEN "/home/user"
        ELSE IF args[2] = "~" THEN "/home/user"
        ELSE IF args[2] = ".."
             THEN CASE from = "/" -> "/"
                    [] from = "/home" -> "/"
                    [] from = "/home/user" -> "/home"
                    [] from = "/home/user/projects" -> "/home/user"
        ELSE IF Head(args[2]) = "/" THEN args[2]
        ELSE IF from = "/" THEN "/" \o args[2]
        ELSE from \o "/" \o args[2]
  IN  (settled # null /\ args[1] = "cd") =>
        /\ settled.status = "fulfilled"
        /\ (noTarget \/ args[2] \in {"~", ".."}) => settled.value.exitCode = 0
        /\ IF resolved \in DOMAIN mockFileSystem
           THEN /\ settled.value.exitCode = 0
                /\ settled.value.output = ""
                /\ currentDirectory = resolved
           ELSE /\ settled.value.exitCode = 1
                /\ currentDirectory = from

\* "cd home" at the root moved to /home, with a single "/"
C20_Witness ==
  /\ settled # null
  /\ settled.command = "cd home"
  /\ settled.value.directory = "/"
  /\ settled.value.exitCode = 0
  /\ currentDirectory = "/home"

\* C21: a pwd submission is started with the directory the session is in,
\* and when it returns its output is exactly the session's current
\* directory, its exit code is 0 and the directory stays what it is.
C21_PwdPrintsCurrentDirectory ==
  /\ [][Len(pending') > Len(pending) =>
          pending'[Len(pending')].state.currentDirectory = currentDirectory]_vars
  /\ [][(Completes /\ firstToken(pending[1].command) = "pwd") =>
          /\ settled'.status = "fulfilled"
          /\ settled'.value.output = currentDirectory
          /\ settled'.value.exitCode = 0
          /\ currentDirectory' = currentDirectory
          /\ history'[Len(history')] = settled'.value]_vars

\* after a successful "cd projects", pwd printed /home/user/projects
C21_Witness ==
  /\ Len(history) = 2
  /\ history[1].command = "cd projects"
  /\ history[1].exitCode = 0
  /\ history[2].command = "pwd"
  /\ history[2].output = "/home/user/projects"
  /\ currentDirectory = "/home/user/projects"

\* App calls useTerminal() itself (App.tsx), a second instance of the hook
\* next to the one inside Terminal.  App takes only currentDirectory and
\* history from it and never calls its executeCommand or clearHistory, so
\* the state of this instance stays the useState initial value.
appTerminalState ==
  [ currentDirectory |-> "/home/user",
    history          |-> <<>>,
    fileSystem       |-> mockFileSystem,
    isExecuting      |-> FALSE ]

\* const lastCommand = history.length > 0 ? history[history.length - 1].command : undefined
lastCommandOf(h) ==
  IF Len(h) > 0 THEN Some(h[Len(h)].command) ELSE null

\* props of <AIAssistant currentDirectory=... lastCommand=... />
assistantProps ==
  [ currentDirectory |-> appTerminalState.currentDirectory,
    lastCommand      |-> lastCommandOf(appTerminalState.history) ]

\* C22: in every reachable state the AI Assistant is handed the terminal
\* session's current directory and the command text of the session's most
\* recent history record (no last command when history is empty).
C22_AssistantSeesSession ==
  /\ assistantProps.currentDirectory = currentDirectory
  /\ assistantProps.lastCommand = lastCommandOf(history)

\* the tokens of a command text that are not empty
operandsOf(text) == filterBoolean(split(trim(text), " "))

\* C23: cat, head, tail, less, more, wc, stat, file, mkdir, rmdir, rm, cp,
\* mv and touch, called without their operand (cp and mv: without both of
\* them), return exit code 1 with the utility's own missing-operand
\* message; the call appends exactly one record and the current directory
\* stays what it was.
C23_MissingOperand ==
  LET tokens == operandsOf(IF settled = null THEN "" ELSE settled.command)
  IN  (/\ settled # null
       /\ Len(tokens) >= 1
       /\ tokens[1] \in {"cat", "head", "tail", "less", "more", "wc", "stat",
                         "file", "mkdir", "rmdir", "rm", "cp", "mv", "touch"}
       /\ Len(tokens) < (IF tokens[1] \in {"cp", "mv"} THEN 3 ELSE 2)) =>
        /\ settled.status = "fulfilled"
        /\ settled.value.exitCode = 1
        /\ settled.value.output \in {tokens[1] \o ": missing operand",
                                     tokens[1] \o ": missing file operand"}
        /\ history = <<settled.value>>
        /\ currentDirectory = settled.value.directory
        /\ ~isExecuting

\* cp with a source and no destination
C23_Witness ==
  /\ settled # null
  /\ settled.command = "cp nowhere"
  /\ settled.value.exitCode = 1
  /\ settled.value.output = "cp: missing file operand"
  /\ Len(history) = 1
  /\ currentDirectory = "/home/user/projects"

\* C24: the directory of a record is the session's current directory at the
\* time its command was submitted (for a successful cd the directory before
\* the change), and a record in history is never modified afterwards:
\* history only grows by the new record at its end or is emptied.
C24_RecordDirectoryAndImmutability ==
  /\ [][Len(pending') > Len(pending) =>
          /\ pending' = Append(pending, pending'[Len(pending')])
          /\ pending'[Len(pending')].submitLen = Len(history)
          /\ history' = history]_vars
  /\ [][Completes =>
          /\ currentDirectory = pending[1].state.currentDirectory
          /\ settled'.status = "fulfilled" =>
                /\ settled'.value.directory = currentDirectory
                /\ history' = Append(history, settled'.value)]_vars
  /\ [][\/ history' = <<>>
        \/ /\ Len(history') >= Len(history)
           /\ SubSeq(history', 1, Len(history)) = history]_vars

\* a successful cd recorded with the directory it left, followed by a
\* record made in the new directory
C24_Witness ==
  /\ Len(history) = 2
  /\ history[1].command = "cd projects"
  /\ history[1].exitCode = 0
  /\ history[1].directory = "/home/user"
  /\ history[2].command = "cd .."
  /\ history[2].directory = "/home/user/projects"
  /\ currentDirectory = "/home/user"

\* C25: at any time the records in history have pairwise distinct ids, and
\* a call in flight has an id that no record in history has: an id is the
\* millisecond clock at submission and a submission is accepted only after
\* the previous call returned, at least 200 ms after it was submitted.
C25_DistinctIds ==
  /\ \A i, j \in 1..Len(history) :
        i # j => history[i].id # history[j].id
  /\ \A i \in 1..Len(history), k \in 1..Len(pending) :
        history[i].id # pending[k].commandId

\* the same command submitted twice gives two records that differ in id
C25_Witness ==
  /\ Len(history) = 2
  /\ history[1].command = "pwd"
  /\ history[2].command = "pwd"
  /\ history[1].output = history[2].output
  /\ history[1].id # history[2].id

\* C26: no submission changes the file system: it is the seed mapping in
\* every reachable state and in the state every call in flight has
\* captured, so after "mkdir nowhere" reported success a listing of the
\* current directory does not show the name and "cd nowhere" fails as it
\* did before.
C26_FileSystemIsSeed ==
  /\ fileSystem = mockFileSystem
  /\ \A k \in 1..Len(pending) : pending[k].state.fileSystem = mockFileSystem
  /\ \A i \in 1..Len(history) :
        (history[i].command = "mkdir nowhere" /\ history[i].exitCode = 0) =>
          /\ ~strIncludes(handle_ls(<<"ls">>, currentDirectory, fileSystem,
                                    clock).output, "nowhere")
          /\ \A j \in (i + 1)..Len(history) :
                history[j].command = "cd nowhere" => history[j].exitCode = 1

\* mkdir reported the directory created and the cd into it failed
C26_Witness ==
  /\ Len(history) = 2
  /\ history[1].command = "mkdir nowhere"
  /\ history[1].output = "Directory 'nowhere' created"
  /\ history[1].exitCode = 0
  /\ history[2].command = "cd nowhere"
  /\ history[2].exitCode = 1
  /\ currentDirectory = "/home/user"

\* the number of reply lines in the output of ping
replyLines(output) ==
  Cardinality({k \in 1..(Len(output) - 13) :
                 SubSeq(output, k, k + 13) = "64 bytes from "})

\* C27: ping returns exit code 0, emits exactly count reply lines and
\* reports the same count as transmitted and received in its statistics
\* line, where count is the integer in the token that follows -c, and 4
\* when -c is absent or that token does not parse.
C27_PingCount ==
  LET args == split(trim(IF settled = null THEN "" ELSE settled.command), " ")
      n == parseInt(ArgOpt(args, indexOf(args, "-c") + 1))
      count == IF arrIncludes(args, "-c") /\ ~n.nan THEN n.val ELSE 4
  IN  (settled # null /\ args[1] = "ping") =>
        /\ settled.status = "fulfilled"
        /\ settled.value.exitCode = 0
        /\ replyLines(settled.value.output) = count
        /\ strIncludes(settled.value.output,
                       "\n" \o ToString(count) \o " packets transmitted, "
                       \o ToString(count) \o " packets received, ")

\* the history was emptied after the call in flight was submitted
clearedInFlight ==
  /\ Len(pending) = 1
  /\ Len(history) < pending[1].submitLen

\* C28: when the history is cleared while a command is in flight, the
\* command still completes (the timer being fair): the completing step
\* leaves a history of exactly the record of that command, applies the
\* directory change of a successful cd, and sets isExecuting to false.
C28_ClearInFlight ==
  /\ (isExecuting /\ clearedInFlight)
       ~> (~isExecuting /\ settled # null /\ history = <<settled.value>>)
  /\ [][(Completes /\ clearedInFlight) =>
          LET args == split(pending[1].command, " ")
          IN  /\ settled'.status = "fulfilled"
              /\ settled'.value.command = pending[1].command
              /\ history' = <<settled'.value>>
              /\ ~isExecuting'
              /\ currentDirectory' =
                   IF args[1] = "cd" /\ settled'.value.exitCode = 0
                   THEN cdTarget(args, currentDirectory)
                   ELSE currentDirectory]_vars

\* "cd projects" was submitted with one record in history, the history was
\* cleared while it ran, and the command has completed
C28_Witness ==
  /\ ~isExecuting
  /\ settled # null
  /\ settled.command = "cd projects"
  /\ settled.submitLen = 1
  /\ history = <<settled.value>>
  /\ history[1].directory = "/home/user"
  /\ currentDirectory = "/home/user/projects"

\* C29: a suggestion of the static prediction table, submitted as it is, is
\* dispatched to a handler: its call never ends in the command-not-found
\* result (exit code 127).
C29_SuggestionsAreExecutable ==
  (settled # null /\ settled.command \in Suggestions) =>
    /\ settled.status = "fulfilled"
    /\ settled.value.exitCode # 127

\* C30: a submission whose first token is clear and that has further
\* tokens is not intercepted: the step that accepts it starts a call and
\* leaves the history as it is, and the call appends one record with empty
\* output and exit code 0 to the history.
C30_ClearWithArguments ==
  /\ [][(/\ ~isExecuting
         /\ Len(operandsOf(currentCommand)) >= 2
         /\ operandsOf(currentCommand)[1] = "clear"
         /\ currentCommand' = "") =>
          /\ history' = history
          /\ isExecuting'
          /\ pending' = Append(pending, pending'[Len(pending')])
          /\ pending'[Len(pending')].command = trim(currentCommand)]_vars
  /\ [][(Completes /\ firstToken(pending[1].command) = "clear") =>
          /\ settled'.status = "fulfilled"
          /\ settled'.value.command = pending[1].command
          /\ settled'.value.output = ""
          /\ settled'.value.exitCode = 0
          /\ history' = Append(history, settled'.value)
          /\ currentDirectory' = currentDirectory]_vars

\* "clear x" has left a record behind an earlier record, which is kept
C30_Witness ==
  /\ Len(history) = 2
  /\ history[1].command = "pwd"
  /\ history[2].command = "clear x"
  /\ history[2].output = ""
  /\ history[2].exitCode = 0

====
